---- MODULE Spec2Model ----
(***************************************************************************)
(* Model of callbacks/neptune_callback.py: the NeptuneCallback training    *)
(* monitor.  The monitor is attached to a training loop; its step hook     *)
(* periodically aggregates the episode logs of the log directory, runs a   *)
(* policy evaluation, optionally records a video, reports metrics to the   *)
(* tracking session and checkpoints the best model.                        *)
(*                                                                         *)
(* Numbers.  Rewards and lengths are floats in the program.  The model     *)
(* keeps them exact: a value is a reduced fraction [num, den], negative    *)
(* infinity is the fraction -1/0, and np.std is kept as the square root    *)
(* of an exact fraction, [sqrt_of |-> variance].  Floating-point rounding  *)
(* is not modelled.                                                        *)
(***************************************************************************)
EXTENDS Integers, Sequences, FiniteSets, Bags, TLC

VARIABLES
    pc,                \* "constructed" | "ready" | "aborted": life cycle of the monitor
    logs_freq,         \* self.logs_freq
    evaluate_freq,     \* self.evaluate_freq
    make_video,        \* self.make_video
    model_parameter,   \* self.model_parameter: sequence of "key: value" items
    comment,           \* self.comment ("None" when unset)
    random_seed,       \* self.random_seed ("None" when unset)
    best_mean_reward,  \* self.best_mean_reward
    n_calls,           \* self.n_calls, counted by the training loop
    model,             \* the policy's training state (number of updates applied)
    session,           \* remote tracking session: "none" | "open"
    log_dir,           \* the log directory: [exists, entries]
    best_model_plk,    \* content of {log_dir}/best_model.plk (NoFile when never written)
    trace,             \* external effects of the last handler call, in order
    ret,               \* outcome of the last call: "none" (no call yet) | "True" |
                       \* "None" | "raised" | "returned" (a direct _load_logs call)
    logs,              \* result of the last _load_logs call
    listing,           \* the order os.listdir returned to a direct call of _load_logs
    evals              \* history: every evaluation performed, [mean, model]

vars == <<pc, logs_freq, evaluate_freq, make_video, model_parameter, comment,
          random_seed, best_mean_reward, n_calls, model, session, log_dir,
          best_model_plk, trace, ret, logs, listing, evals>>

----------------------------------------------------------------------------
(* Bounds of the model *)

MaxRowsA == 6      \* data rows of the log file a.csv
MaxRowsB == 2      \* data rows of the log file b.csv
MaxCalls == 3      \* calls of the step hook in one run
MaxFreq == 2       \* largest logging / evaluation frequency
MaxAppends == 3    \* lines the training loop writes to a.csv during a run

(* Program constants *)

Window == 4            \* lasts = min(4, len(rows))
n_eval_episodes == 5   \* evaluate_policy(..., n_eval_episodes=5, ...)

----------------------------------------------------------------------------
(* Exact arithmetic *)

\* F applied to the value of e, with e evaluated once
With(e, F(_)) == CHOOSE y \in {F(x) : x \in {e}} : TRUE

Abs(x) == IF x < 0 THEN -x ELSE x

RECURSIVE GCD(_, _)
GCD(a, b) == IF b = 0 THEN a ELSE GCD(b, a % b)

Frac(n, d) ==
    LET g == GCD(Abs(n), d)
    IN  [num |-> n \div g, den |-> d \div g]

NegInf == [num |-> -1, den |-> 0]

\* a > b on fractions (and on -inf, which is below every finite value and
\* not above itself)
Gt(a, b) == a.num * b.den > b.num * a.den

Min(a, b) == IF a < b THEN a ELSE b

RECURSIVE SumSeq(_)
SumSeq(s) == IF s = <<>> THEN 0 ELSE Head(s) + SumSeq(Tail(s))

\* np.mean of a non-empty array
NpMean(a) == Frac(SumSeq(a), Len(a))

\* np.std of a non-empty array: sqrt(mean(abs(a - a.mean()) ** 2)).  With
\* n = len(a) and S = sum(a), the deviation of a[i] is (n * a[i] - S) / n.
NpStd(a) ==
    LET n == Len(a)
        S == SumSeq(a)
        sq == [i \in 1..n |-> (n * a[i] - S) * (n * a[i] - S)]
    IN  [sqrt_of |-> Frac(SumSeq(sq), n * n * n)]

None == [none |-> TRUE]

----------------------------------------------------------------------------
(* The log directory *)

CsvA == <<"a", ".csv">>
CsvB == <<"b", ".csv">>
SubCsv == <<"sub", ".csv">>       \* a sub-directory whose name ends in .csv
NotesTxt == <<"notes", ".txt">>   \* a regular file with another extension
Names == {CsvA, CsvB, SubCsv, NotesTxt}

Header == <<"r", "l">>
RowValues == {<<1, 2>>, <<3, 1>>}    \* the cells of a data row: r, l

Absent == [kind |-> "absent", lines |-> <<>>]
Dir == [kind |-> "dir", lines |-> <<>>]
File(lines) == [kind |-> "file", lines |-> lines]

SeqsUpTo(S, n) == UNION {[1..k -> S] : k \in 0..n}

\* What a log file can hold: nothing at all, or a header and data rows
FileContents(maxRows) ==
    {<<>>} \cup {<<Header>> \o rows : rows \in SeqsUpTo(RowValues, maxRows)}

NotesContent == <<Header, <<3, 1>>, <<3, 1>>, <<1, 2>>>>

RECURSIVE Perms(_)
Perms(S) ==
    IF S = {} THEN {<<>>}
    ELSE UNION {{<<x>> \o p : p \in Perms(S \ {x})} : x \in S}

Present(d) == {nm \in Names : d.entries[nm].kind # "absent"}

\* os.listdir: the entries of the directory, in arbitrary order
Listdir(d) == Perms(Present(d))

\* os.path.isfile
IsFile(d, nm) == d.entries[nm].kind = "file"

\* Faulty variant of EndsWithCsv: every name is taken for a log file
MutEndsWithAnything(nm) == TRUE

\* file_or_dir[-len('.csv'):] == '.csv'
EndsWithCsv(nm) == nm[Len(nm)] = ".csv"

\* csv.DictReader: the first line gives the field names, every later line
\* is a row keyed by them
DictReader(lines) ==
    IF lines = <<>> THEN <<>>
    ELSE LET hdr == Head(lines)
             keys == {hdr[j] : j \in 1..Len(hdr)}
         IN  [i \in 1..(Len(lines) - 1) |->
                [k \in keys |-> lines[i + 1][CHOOSE j \in 1..Len(hdr) : hdr[j] = k]]]

\* Faulty variant of DropFirst: the first row is kept
MutDropFirstKeepsAll(s) == s

\* s[1:]
DropFirst(s) == IF s = <<>> THEN <<>> ELSE Tail(s)

\* Faulty variant of LastN: the leading n rows, s[:n]
MutLastNTakesLeading(s, n) == SubSeq(s, 1, n)

\* s[-n:] for 1 <= n <= len(s)
LastN(s, n) == SubSeq(s, Len(s) - n + 1, Len(s))

\* Lines 84-88: the rows one matching file contributes
FileRows(lines) ==
    LET rows == DropFirst(DictReader(lines))
    IN  IF Len(rows) = 0 THEN <<>>
        ELSE LastN(rows, Min(Window, Len(rows)))

\* Lines 78-92: the loop over the listing, accumulating the two lists
RECURSIVE Accumulate(_, _)
Accumulate(d, order) ==
    IF order = <<>> THEN [last_rewards |-> <<>>, last_ep_lengths |-> <<>>]
    ELSE LET nm == Head(order)
             rest == Accumulate(d, Tail(order))
             rows == IF IsFile(d, nm) /\ EndsWithCsv(nm)
                     THEN FileRows(d.entries[nm].lines)
                     ELSE <<>>
         IN  [last_rewards |->
                 [i \in 1..Len(rows) |-> rows[i]["r"]] \o rest.last_rewards,
              last_ep_lengths |->
                 [i \in 1..Len(rows) |-> rows[i]["l"]] \o rest.last_ep_lengths]

\* NeptuneCallback._load_logs, for the order os.listdir returned
LoadLogsStats(acc) ==
    IF Len(acc.last_rewards) = 0 THEN None
    ELSE [mean_reward |-> NpMean(acc.last_rewards),
          std_reward |-> NpStd(acc.last_rewards),
          mean_ep_lengths |-> NpMean(acc.last_ep_lengths),
          std_ep_lengths |-> NpStd(acc.last_ep_lengths)]

LoadLogs(d, order) == With(Accumulate(d, order), LoadLogsStats)

----------------------------------------------------------------------------
(* External calls.  Every call a handler makes on the tracking session, the *)
(* file system, the evaluation utility or the model is recorded in trace,   *)
(* in the order made; ok is FALSE for a call that raised.                   *)

NoFile == [none |-> TRUE]

Call(op, name, value) == [op |-> op, name |-> name, value |-> value, ok |-> TRUE]
Failed(op, name) == [op |-> op, name |-> name, value |-> None, ok |-> FALSE]

\* The calls of a handler that can raise in the model
InitFaults == {"none", "neptune.init", "create_experiment", "log_text Model Params",
               "log_text Path to local files", "os.mkdir"}
StepFaults == {"none", "_evaluate", "_make_video"}

----------------------------------------------------------------------------
(* NeptuneCallback._init_callback *)

\* reduce(lambda x, y: x + y + "\n", items) with no initial value: raises on
\* an empty list, returns the single item of a one-item list unchanged
RECURSIVE FoldItems(_, _)
FoldItems(x, items) ==
    IF items = <<>> THEN x
    ELSE FoldItems(x \o <<Head(items), "\n">>, Tail(items))

Reduce(items) ==
    IF items = <<>> THEN [raised |-> TRUE, value |-> <<>>]
    ELSE [raised |-> FALSE, value |-> FoldItems(<<Head(items)>>, Tail(items))]

\* Line 57-60: the tags of the experiment
Tags(seed) ==
    IF seed = "None" THEN <<"model class", "environment">>
    ELSE <<"model class", "environment", <<"seed: ", seed>>>>

\* Faulty variant of ModelParamsUpload: no try / except around the dump
MutModelParamsNotSuppressed(items, fault) ==
    LET text == Reduce(items)
    IN  IF text.raised
        THEN [calls |-> <<Failed("reduce", "")>>, raised |-> TRUE]
        ELSE IF fault = "log_text Model Params"
        THEN [calls |-> <<Failed("log_text", "Model Params")>>, raised |-> TRUE]
        ELSE [calls |-> <<Call("log_text", "Model Params", text.value)>>,
              raised |-> FALSE]

\* Lines 62-66: the hyperparameter dump, inside try / except: pass
ModelParamsUpload(items, fault) ==
    LET text == Reduce(items)
    IN  IF text.raised
        THEN [calls |-> <<Failed("reduce", "")>>, raised |-> FALSE]
        ELSE IF fault = "log_text Model Params"
        THEN [calls |-> <<Failed("log_text", "Model Params")>>, raised |-> FALSE]
        ELSE [calls |-> <<Call("log_text", "Model Params", text.value)>>,
              raised |-> FALSE]

\* Lines 55-60: the session is established and tagged
OpenSession(fault) ==
    IF fault = "neptune.init"
    THEN [calls |-> <<Failed("neptune.init", "")>>, raised |-> TRUE]
    ELSE IF fault = "create_experiment"
    THEN [calls |-> <<Call("neptune.init", "", None),
                      Failed("create_experiment", "")>>, raised |-> TRUE]
    ELSE [calls |-> <<Call("neptune.init", "", None),
                      Call("create_experiment", "", None),
                      Call("append_tags", "", Tags(random_seed))>>,
          raised |-> FALSE]

\* Lines 68-72: path upload, comment upload, creation of the log directory
Uploads(fault) ==
    IF fault = "log_text Path to local files"
    THEN [calls |-> <<Failed("log_text", "Path to local files")>>, raised |-> TRUE]
    ELSE LET path == <<Call("log_text", "Path to local files", <<"log_dir">>)>>
             cmt == IF comment # "None"
                    THEN <<Call("log_text", "Comment", <<comment>>)>>
                    ELSE <<>>
         IN  IF log_dir.exists
             THEN [calls |-> path \o cmt, raised |-> FALSE]
             ELSE IF fault = "os.mkdir"
             THEN [calls |-> path \o cmt \o <<Failed("os.mkdir", "")>>,
                   raised |-> TRUE]
             ELSE [calls |-> path \o cmt \o <<Call("os.mkdir", "", None)>>,
                   raised |-> FALSE]

\* The calls of one run of _init_callback and whether it raised
InitCallbackRun(fault) ==
    LET s1 == OpenSession(fault)
        s2 == ModelParamsUpload(model_parameter, fault)
        s3 == Uploads(fault)
    IN  IF s1.raised THEN s1
        ELSE IF s2.raised THEN [calls |-> s1.calls \o s2.calls, raised |-> TRUE]
        ELSE [calls |-> s1.calls \o s2.calls \o s3.calls, raised |-> s3.raised]

Did(calls, op) == \E i \in 1..Len(calls) : calls[i].op = op /\ calls[i].ok

InitCallback ==
    /\ pc = "constructed"
    /\ \E fault \in InitFaults :
        \E run \in {InitCallbackRun(fault)} :
            /\ trace' = run.calls
            /\ ret' = IF run.raised THEN "raised" ELSE "None"
            /\ pc' = IF run.raised THEN "aborted" ELSE "ready"
            /\ session' = IF Did(run.calls, "neptune.init") THEN "open" ELSE session
            /\ log_dir' = IF Did(run.calls, "os.mkdir")
                          THEN [log_dir EXCEPT !.exists = TRUE]
                          ELSE log_dir
    /\ UNCHANGED <<logs_freq, evaluate_freq, make_video, model_parameter, comment,
                   random_seed, best_mean_reward, n_calls, model, best_model_plk,
                   logs, listing, evals>>

----------------------------------------------------------------------------
(* NeptuneCallback._evaluate and NeptuneCallback._on_step *)

\* What evaluate_policy can return: the rewards and lengths of the episodes
EvalResults ==
    {[episode_rewards |->
          [i \in 1..n_eval_episodes |-> IF i % 2 = 0 THEN r + 1 ELSE r],
      episode_lengths |->
          [i \in 1..n_eval_episodes |-> IF i = 1 THEN 10 * r + 9 ELSE 10 * r + 10]] :
        r \in 0..2}

\* Lines 135-137
Evaluate(res) ==
    [mean_reward |-> NpMean(res.episode_rewards),
     std_reward |-> NpStd(res.episode_rewards),
     mean_ep_length |-> NpMean(res.episode_lengths),
     std_ep_length |-> NpStd(res.episode_lengths)]

\* Lines 147-150
TrainingMetrics(lg) ==
    <<Call("log_metric", "mean reward from training", lg.mean_reward),
      Call("log_metric", "std reward from training", lg.std_reward),
      Call("log_metric", "mean length from training", lg.mean_ep_lengths),
      Call("log_metric", "std length from training", lg.std_ep_lengths)>>

\* Lines 157-160
EvaluationMetrics(e) ==
    <<Call("log_metric", "mean reward from evaluate", e.mean_reward),
      Call("log_metric", "std_reward from evaluate", e.std_reward),
      Call("log_metric", "mean episode length from evaluate", e.mean_ep_length),
      Call("log_metric", "std episode length from evaluate", e.std_ep_length)>>

\* Faulty variant of IsNewBest: mean_reward >= self.best_mean_reward
MutIsNewBestOrEqual(mean_reward, best) == ~Gt(best, mean_reward)

\* Faulty variant of IsNewBest: mean_reward != self.best_mean_reward
MutIsNewBestAnyChange(mean_reward, best) == mean_reward # best

\* Line 162: mean_reward > self.best_mean_reward
IsNewBest(mean_reward, best) == Gt(mean_reward, best)

\* Faulty variant of NoDataReturn: a bare return
MutNoDataReturnsNone == "None"

\* Line 143: the value returned when aggregation yields no data
NoDataReturn == "True"

\* Line 166
FinalReturn == "True"

\* Lines 140-150: the logging trigger.  done: the hook has returned
LoggingPart(n, order) ==
    IF n % logs_freq = 0
    THEN With(LoadLogs(log_dir, order), LAMBDA lg :
             IF lg = None
             THEN [calls |-> <<Call("_load_logs", "", None)>>, done |-> TRUE,
                   ret |-> NoDataReturn, logs |-> lg]
             ELSE [calls |-> <<Call("_load_logs", "", lg)>> \o TrainingMetrics(lg),
                   done |-> FALSE, ret |-> "none", logs |-> lg])
    ELSE [calls |-> <<>>, done |-> FALSE, ret |-> "none", logs |-> logs]

\* Lines 152-164: the evaluation trigger
EvaluationPart(n, res, fault, policy) ==
    IF n % evaluate_freq = 0
    THEN IF fault = "_evaluate"
         THEN [calls |-> <<Failed("_evaluate", "")>>, raised |-> TRUE,
               best |-> best_mean_reward, evaluated |-> FALSE]
         ELSE With(Evaluate(res), LAMBDA e :
                  IF make_video /\ fault = "_make_video"
                  THEN [calls |-> <<Call("_evaluate", "", e),
                                    Failed("_make_video", "")>>,
                        raised |-> TRUE, best |-> best_mean_reward,
                        evaluated |-> TRUE]
                  ELSE [calls |->
                            <<Call("_evaluate", "", e)>>
                            \o (IF make_video
                                THEN <<Call("_make_video", "", None)>> ELSE <<>>)
                            \o EvaluationMetrics(e)
                            \o (IF IsNewBest(e.mean_reward, best_mean_reward)
                                THEN <<Call("model.save", "best_model.plk", policy)>>
                                ELSE <<>>),
                        raised |-> FALSE,
                        best |-> IF IsNewBest(e.mean_reward, best_mean_reward)
                                 THEN e.mean_reward ELSE best_mean_reward,
                        evaluated |-> TRUE])
    ELSE [calls |-> <<>>, raised |-> FALSE, best |-> best_mean_reward,
          evaluated |-> FALSE]

\* NeptuneCallback._on_step for call number n
OnStepRun(n, order, res, fault, policy) ==
    With(LoggingPart(n, order), LAMBDA lp :
        IF lp.done
        THEN [calls |-> lp.calls, ret |-> lp.ret, best |-> best_mean_reward,
              evaluated |-> FALSE, logs |-> lp.logs]
        ELSE With(EvaluationPart(n, res, fault, policy), LAMBDA ep :
                 [calls |-> lp.calls \o ep.calls,
                  ret |-> IF ep.raised THEN "raised" ELSE FinalReturn,
                  best |-> ep.best, evaluated |-> ep.evaluated,
                  logs |-> lp.logs]))

Saved(calls) == {i \in 1..Len(calls) : calls[i].op = "model.save"}

\* What the external calls of call number n can do: os.listdir is called only
\* when the logging trigger fires, evaluate_policy and the video recorder only
\* when the evaluation trigger fires
StepListings(n) ==
    IF n % logs_freq = 0 THEN Listdir(log_dir) ELSE {<<>>}

StepEvalResults(n) ==
    IF n % evaluate_freq = 0 THEN EvalResults
    ELSE {CHOOSE res \in EvalResults : TRUE}

StepEvalFaults(n) ==
    IF n % evaluate_freq = 0 THEN StepFaults ELSE {"none"}

\* The training loop makes one step and calls the step hook: n_calls is
\* incremented, then _on_step runs
OnStep ==
    /\ pc = "ready"
    /\ n_calls < MaxCalls
    /\ \E order \in StepListings(n_calls + 1),
          res \in StepEvalResults(n_calls + 1),
          fault \in StepEvalFaults(n_calls + 1) :
      \E run \in {OnStepRun(n_calls + 1, order, res, fault, model + 1)} :
        LET n == n_calls + 1
            policy == model + 1
        IN  /\ n_calls' = n
            /\ model' = policy
            /\ trace' = run.calls
            /\ ret' = run.ret
            /\ pc' = IF run.ret = "raised" THEN "aborted" ELSE "ready"
            /\ best_mean_reward' = run.best
            /\ best_model_plk' = IF Saved(run.calls) # {}
                                 THEN [none |-> FALSE, policy |-> policy]
                                 ELSE best_model_plk
            /\ logs' = run.logs
            /\ evals' = IF run.evaluated
                        THEN Append(evals, [mean |-> Evaluate(res).mean_reward,
                                            policy |-> policy, call |-> n])
                        ELSE evals
    /\ UNCHANGED <<logs_freq, evaluate_freq, make_video, model_parameter, comment,
                   random_seed, session, log_dir, listing>>

\* Between two calls of the hook the training loop's episode monitor writes
\* to its log file: it creates a.csv with the header, or appends a data row
EnvAppend ==
    /\ pc = "ready"
    /\ LET f == log_dir.entries[CsvA]
       IN  IF f.kind = "absent"
           THEN log_dir' = [log_dir EXCEPT !.entries[CsvA] = File(<<Header>>)]
           ELSE /\ Len(f.lines) < MaxAppends
                /\ \E row \in RowValues :
                    log_dir' = [log_dir EXCEPT
                                   !.entries[CsvA] = File(Append(f.lines, row))]
    /\ UNCHANGED <<pc, logs_freq, evaluate_freq, make_video, model_parameter,
                   comment, random_seed, best_mean_reward, n_calls, model, session,
                   best_model_plk, trace, ret, logs, listing, evals>>

----------------------------------------------------------------------------
(* Specification Spec: the monitor from construction on *)

NoEntries == [nm \in Names |-> Absent]

OtherEntries ==
    [nm \in Names |-> IF nm = SubCsv THEN Dir
                      ELSE IF nm = NotesTxt THEN File(NotesContent)
                      ELSE Absent]

Init ==
    /\ pc = "constructed"
    /\ logs_freq \in 1..MaxFreq
    /\ evaluate_freq \in 1..MaxFreq
    /\ make_video \in BOOLEAN
    /\ model_parameter = <<"learning_rate: 0.1">>
    /\ comment = "None"
    /\ random_seed = "None"
    /\ best_mean_reward = NegInf
    /\ n_calls = 0
    /\ model = 0
    /\ session = "none"
    /\ log_dir \in {[exists |-> FALSE, entries |-> NoEntries],
                    [exists |-> TRUE, entries |-> OtherEntries]}
    /\ best_model_plk = NoFile
    /\ trace = <<>>
    /\ ret = "none"
    /\ logs = None
    /\ listing = <<>>
    /\ evals = <<>>

Next == InitCallback \/ EnvAppend \/ OnStep

Spec == Init /\ [][Next]_vars

----------------------------------------------------------------------------
(* Specification SpecInit: initialization over every bounded configuration *)

ParamItems == {"learning_rate: 0.1", "gamma: 0.9"}

ParamDicts ==
    {<<>>} \cup {<<x>> : x \in ParamItems}
           \cup {p \in ParamItems \X ParamItems : p[1] # p[2]}

InitInit ==
    /\ pc = "constructed"
    /\ logs_freq = 1
    /\ evaluate_freq = 1
    /\ make_video = FALSE
    /\ model_parameter \in ParamDicts
    /\ comment \in {"None", "baseline run"}
    /\ random_seed \in {"None", "0", "42"}
    /\ best_mean_reward = NegInf
    /\ n_calls = 0
    /\ model = 0
    /\ session = "none"
    /\ log_dir \in {[exists |-> FALSE, entries |-> NoEntries],
                    [exists |-> TRUE, entries |-> NoEntries],
                    [exists |-> TRUE, entries |-> OtherEntries]}
    /\ best_model_plk = NoFile
    /\ trace = <<>>
    /\ ret = "none"
    /\ logs = None
    /\ listing = <<>>
    /\ evals = <<>>

NextInit == InitCallback

SpecInit == InitInit /\ [][NextInit]_vars

----------------------------------------------------------------------------
(* Specification SpecLoad: log aggregation over every bounded directory *)

Directories ==
    {[exists |-> TRUE,
      entries |-> [nm \in Names |->
                     IF nm = CsvA THEN a
                     ELSE IF nm = CsvB THEN b
                     ELSE IF nm = SubCsv THEN s
                     ELSE n]] :
        a \in {Absent} \cup {File(c) : c \in FileContents(MaxRowsA)},
        b \in {Absent} \cup {File(c) : c \in FileContents(MaxRowsB)},
        s \in {Absent, Dir},
        n \in {Absent, File(NotesContent)}}

InitLoad ==
    /\ pc = "ready"
    /\ logs_freq = 1
    /\ evaluate_freq = 1
    /\ make_video = FALSE
    /\ model_parameter = <<>>
    /\ comment = "None"
    /\ random_seed = "None"
    /\ best_mean_reward = NegInf
    /\ n_calls = 0
    /\ model = 0
    /\ session = "open"
    /\ log_dir \in Directories
    /\ best_model_plk = NoFile
    /\ trace = <<>>
    /\ ret = "none"
    /\ logs = None
    /\ listing = <<>>
    /\ evals = <<>>

\* One call of _load_logs
CallLoadLogs ==
    /\ ret = "none"
    /\ \E order \in Listdir(log_dir) :
        /\ listing' = order
        /\ logs' = LoadLogs(log_dir, order)
    /\ ret' = "returned"
    /\ UNCHANGED <<pc, logs_freq, evaluate_freq, make_video, model_parameter,
                   comment, random_seed, best_mean_reward, n_calls, model,
                   session, log_dir, best_model_plk, trace, evals>>

NextLoad == CallLoadLogs

SpecLoad == InitLoad /\ [][NextLoad]_vars

----------------------------------------------------------------------------
(* Claims about log aggregation (specification SpecLoad) *)

\* The matching log files of the directory
Matching(d) == {nm \in Names : d.entries[nm].kind = "file" /\ nm[2] = ".csv"}

\* Number of data rows of a log file (lines after the header)
DataRowCount(d, nm) ==
    IF d.entries[nm].lines = <<>> THEN 0 ELSE Len(d.entries[nm].lines) - 1

\* Data row i of a log file, as its cells <<r, l>>
DataRow(d, nm, i) == d.entries[nm].lines[i + 1]

Zero == [num |-> 0, den |-> 1]
Exactly(v) == [num |-> v, den |-> 1]

\* C4, as stated: a single matching log file with exactly one data row gives
\* a result (not 'no data') whose means are that row's r and l and whose two
\* standard deviations are 0.
C4_SingleRowGivesItsValues ==
    (ret = "returned" /\ Cardinality(Matching(log_dir)) = 1) =>
        \A nm \in Matching(log_dir) :
            DataRowCount(log_dir, nm) = 1 =>
                /\ logs # None
                /\ logs = [mean_reward |-> Exactly(DataRow(log_dir, nm, 1)[1]),
                           std_reward |-> [sqrt_of |-> Zero],
                           mean_ep_lengths |-> Exactly(DataRow(log_dir, nm, 1)[2]),
                           std_ep_lengths |-> [sqrt_of |-> Zero]]

\* C4, amended: a single matching log file with exactly one data row gives
\* 'no data', because the first data row of every file is dropped; with
\* exactly two data rows the result's means are the second row's r and l and
\* the two standard deviations are 0.
C4_SingleFileFirstRowDropped ==
    (ret = "returned" /\ Cardinality(Matching(log_dir)) = 1) =>
        \A nm \in Matching(log_dir) :
            /\ DataRowCount(log_dir, nm) = 1 => logs = None
            /\ DataRowCount(log_dir, nm) = 2 =>
                logs = [mean_reward |-> Exactly(DataRow(log_dir, nm, 2)[1]),
                        std_reward |-> [sqrt_of |-> Zero],
                        mean_ep_lengths |-> Exactly(DataRow(log_dir, nm, 2)[2]),
                        std_ep_lengths |-> [sqrt_of |-> Zero]]

\* C4 witness: aggregation has run on a directory whose single matching file
\* holds a header and one data row, next to a non-matching file
C4_Witness ==
    /\ ret = "returned"
    /\ Matching(log_dir) = {CsvA}
    /\ DataRowCount(log_dir, CsvA) = 1
    /\ log_dir.entries[NotesTxt].kind = "file"

\* The rows the claim says a file contributes, as a bag of cells: the first
\* data row is dropped and the trailing min(4, remaining) rows are kept
Contribution(d, nm) ==
    LET n == DataRowCount(d, nm)
        remaining == n - 1
        kept == IF remaining <= 0 THEN 0
                ELSE IF remaining < 4 THEN remaining ELSE 4
        idx == (n - kept + 1)..n
        vals == {DataRow(d, nm, i) : i \in idx}
    IN  [v \in vals |-> Cardinality({i \in idx : DataRow(d, nm, i) = v})]

RECURSIVE Pool(_, _)
Pool(d, files) ==
    IF files = {} THEN EmptyBag
    ELSE LET nm == CHOOSE x \in files : TRUE
         IN  Contribution(d, nm) (+) Pool(d, files \ {nm})

\* Sum of g[v] over a bag of cells, counting copies
RECURSIVE BagSum(_, _, _)
BagSum(B, S, g) ==
    IF S = {} THEN 0
    ELSE LET v == CHOOSE x \in S : TRUE
         IN  B[v] * g[v] + BagSum(B, S \ {v}, g)

\* Mean and population standard deviation of column c of a non-empty bag:
\* var = (n * sum(x^2) - sum(x)^2) / n^2
BagMean(B, c) ==
    Frac(BagSum(B, BagToSet(B), [v \in BagToSet(B) |-> v[c]]), BagCardinality(B))

BagStd(B, c) ==
    LET n == BagCardinality(B)
        S == BagSum(B, BagToSet(B), [v \in BagToSet(B) |-> v[c]])
        Q == BagSum(B, BagToSet(B), [v \in BagToSet(B) |-> v[c] * v[c]])
    IN  [sqrt_of |-> Frac(n * Q - S * S, n * n)]

PooledStats(d) ==
    LET B == Pool(d, Matching(d))
    IN  IF BagToSet(B) = {} THEN None
        ELSE [mean_reward |-> BagMean(B, 1),
              std_reward |-> BagStd(B, 1),
              mean_ep_lengths |-> BagMean(B, 2),
              std_ep_lengths |-> BagStd(B, 2)]

\* C5: aggregation windows each file and then pools: every matching file
\* loses its first data row and contributes the trailing min(4, remaining)
\* rows, and the statistics are those of the pooled rows of all matching
\* files.  The pooled rows are a bag, which has no order, and the formula is
\* checked for every order os.listdir can return, so the result is the same
\* for every order of the directory listing.
C5_PerFileWindowThenPool ==
    ret = "returned" => logs = PooledStats(log_dir)

\* C5 witness: both log files contribute, one of them has more rows than the
\* window keeps, and the listing returned b.csv before a.csv
C5_Witness ==
    /\ ret = "returned"
    /\ DataRowCount(log_dir, CsvA) > 5
    /\ DataRowCount(log_dir, CsvB) = 2
    /\ log_dir.entries[NotesTxt].kind = "file"
    /\ \E i, j \in 1..Len(listing) :
        i < j /\ listing[i] = CsvB /\ listing[j] = CsvA
    /\ logs # None

----------------------------------------------------------------------------
(* Claims about the step hook (specification Spec) *)

\* The last handler call was a call of the step hook
StepCalled == n_calls > 0

\* The triggers of the last call of the step hook
LogTrigger == StepCalled /\ n_calls % logs_freq = 0
EvalTrigger == StepCalled /\ n_calls % evaluate_freq = 0

TrainingMetricNames ==
    {"mean reward from training", "std reward from training",
     "mean length from training", "std length from training"}

EvaluationMetricNames ==
    {"mean reward from evaluate", "std_reward from evaluate",
     "mean episode length from evaluate", "std episode length from evaluate"}

\* Positions in a call sequence of the successful calls of op / of metric name
Positions(calls, op) == {i \in 1..Len(calls) : calls[i].op = op /\ calls[i].ok}
MetricAt(calls, name) ==
    {i \in 1..Len(calls) : calls[i].op = "log_metric" /\ calls[i].name = name}

AllEmitted(calls, names) == \A nm \in names : Cardinality(MetricAt(calls, nm)) = 1

\* C1: on a call of the step hook that runs to its end and on which the
\* evaluation returns mean reward m: if m is strictly greater than the running
\* best, the best becomes m and exactly one checkpoint write of the current
\* policy to best_model.plk happens in the call; if m is equal or lower, the
\* best is unchanged and no checkpoint write happens.
C1_StrictlyBetterWritesOnce ==
    [][(n_calls' = n_calls + 1 /\ ret' = "True"
            /\ Positions(trace', "_evaluate") # {}) =>
        LET i == CHOOSE k \in Positions(trace', "_evaluate") : TRUE
            m == trace'[i].value.mean_reward
        IN  /\ n_calls' % evaluate_freq = 0
            /\ IF Gt(m, best_mean_reward)
               THEN /\ best_mean_reward' = m
                    /\ Cardinality(Positions(trace', "model.save")) = 1
                    /\ best_model_plk' = [none |-> FALSE, policy |-> model']
               ELSE /\ best_mean_reward' = best_mean_reward
                    /\ Positions(trace', "model.save") = {}
                    /\ best_model_plk' = best_model_plk]_vars

\* C1 witness: the second call evaluated to the same mean as the first; the
\* first wrote the checkpoint and the second did not
C1_Witness ==
    /\ n_calls = 2
    /\ ret = "True"
    /\ Len(evals) = 2
    /\ evals[1].mean = evals[2].mean
    /\ best_mean_reward = evals[1].mean
    /\ Positions(trace, "_evaluate") # {}
    /\ Positions(trace, "model.save") = {}
    /\ best_model_plk = [none |-> FALSE, policy |-> 1]

\* C2: on every call where both triggers fire, both executions occur in that
\* call: aggregation runs, evaluation runs and its four metrics are emitted,
\* whatever aggregation yields ('no data' included); when aggregation yields
\* data its four training metrics are emitted as well.
C2_BothTriggersBothRun ==
    (LogTrigger /\ EvalTrigger /\ ret = "True") =>
        /\ Positions(trace, "_load_logs") # {}
        /\ Positions(trace, "_evaluate") # {}
        /\ AllEmitted(trace, EvaluationMetricNames)
        /\ logs # None => AllEmitted(trace, TrainingMetricNames)

\* C3: best_mean_reward starts at negative infinity and no step of the
\* monitor ever lowers it.
C3_BestNeverDecreases ==
    /\ best_mean_reward = NegInf
    /\ [][~Gt(best_mean_reward, best_mean_reward')]_vars

\* C3 witness: an evaluation with a lower mean than an earlier one has just
\* been performed, and the best is still the earlier mean
C3_Witness ==
    /\ Len(evals) >= 2
    /\ evals[Len(evals)].call = n_calls
    /\ ret = "True"
    /\ Gt(evals[1].mean, evals[Len(evals)].mean)
    /\ Gt(best_mean_reward, evals[Len(evals)].mean)

\* C6: when the log directory has no matching log file (it is empty, or holds
\* only sub-directories and files without the .csv extension), aggregation
\* returns 'no data', and a call of the step hook on which only the logging
\* trigger fires emits no metric and returns without raising.
C6_NoMatchingFilesNoMetrics ==
    (LogTrigger /\ Matching(log_dir) = {}) =>
        /\ logs = None
        /\ ~EvalTrigger =>
            /\ \A i \in 1..Len(trace) : trace[i].op # "log_metric"
            /\ ret = "True"

\* C6 witness: only the logging trigger fired, on a directory holding a
\* sub-directory named sub.csv and the file notes.txt
C6_Witness ==
    /\ LogTrigger
    /\ ~EvalTrigger
    /\ Matching(log_dir) = {}
    /\ log_dir.entries[SubCsv].kind = "dir"
    /\ log_dir.entries[NotesTxt].kind = "file"
    /\ Positions(trace, "_load_logs") # {}
    /\ Len(trace) = 1
    /\ ret = "True"

\* C7: every call of the step hook that returns at all returns True, whichever
\* triggers fire and whatever aggregation and evaluation yield.
C7_AlwaysContinue ==
    (StepCalled /\ ret # "raised") => ret = "True"

\* C7 witness: both triggers fired, aggregation yielded 'no data' and the
\* call returned True
C7_Witness ==
    /\ LogTrigger
    /\ EvalTrigger
    /\ logs = None
    /\ Positions(trace, "_load_logs") # {}
    /\ ret = "True"

\* C9: on a call where the evaluation trigger fires and video recording is
\* enabled, the four evaluation metrics have already been emitted when video
\* capture is invoked.
C9_MetricsBeforeVideo ==
    StepCalled =>
        \A i \in 1..Len(trace) :
            trace[i].op = "_make_video" =>
                \A nm \in EvaluationMetricNames :
                    \E j \in MetricAt(trace, nm) : j < i

\* The maximum mean of a history of evaluations, negative infinity if empty
RECURSIVE MaxMean(_)
MaxMean(h) ==
    IF h = <<>> THEN NegInf
    ELSE LET m == MaxMean(Tail(h))
         IN  IF Gt(m, Head(h).mean) THEN m ELSE Head(h).mean

\* The earliest evaluation of a history that attained its maximum
EarliestBest(h) ==
    h[CHOOSE i \in 1..Len(h) :
        /\ h[i].mean = MaxMean(h)
        /\ \A j \in 1..(i - 1) : h[j].mean # MaxMean(h)]

\* C10: after any sequence of calls of the step hook that returned normally,
\* best_mean_reward is the maximum mean over the evaluations performed so far
\* (negative infinity if none), best_model.plk has been written if and only if
\* some evaluation had a mean above negative infinity, and it holds the policy
\* as it was at the earliest evaluation that attained the current best; a call
\* on which the evaluation trigger does not fire changes neither.
C10_CheckpointTracksBest ==
    /\ [](pc = "ready" =>
            /\ best_mean_reward = MaxMean(evals)
            /\ best_model_plk # NoFile <=>
                  \E i \in 1..Len(evals) : Gt(evals[i].mean, NegInf)
            /\ best_model_plk # NoFile =>
                  best_model_plk.policy = EarliestBest(evals).policy)
    /\ [][(n_calls' = n_calls + 1 /\ n_calls' % evaluate_freq # 0) =>
            UNCHANGED <<best_mean_reward, best_model_plk>>]_vars

\* C10 witness: three evaluations, the first and the third attaining the best
\* and the second below it; the checkpoint is the policy of the first
C10_Witness ==
    /\ pc = "ready"
    /\ Len(evals) = 3
    /\ evals[1].mean = evals[3].mean
    /\ Gt(evals[1].mean, evals[2].mean)
    /\ best_mean_reward = evals[1].mean
    /\ best_model_plk = [none |-> FALSE, policy |-> evals[1].policy]

----------------------------------------------------------------------------
(* Claims about initialization (specification SpecInit) *)

InitReturned == pc # "constructed" /\ n_calls = 0

\* Positions of the failed attempts of the hyperparameter dump
ParamsFailure(calls) ==
    {i \in 1..Len(calls) :
        /\ ~calls[i].ok
        /\ \/ calls[i].op = "reduce"
           \/ calls[i].op = "log_text" /\ calls[i].name = "Model Params"}

TextAt(calls, name) ==
    {i \in 1..Len(calls) : calls[i].op = "log_text" /\ calls[i].name = name}

Attempts(calls, op) == {i \in 1..Len(calls) : calls[i].op = op}

SessionFailed(calls) ==
    \E i \in 1..Len(calls) :
        /\ ~calls[i].ok
        /\ calls[i].op \in {"neptune.init", "create_experiment"}

\* C8: a failure of the hyperparameter text upload (an empty hyperparameter
\* mapping included) is suppressed and does not abort initialization: the
\* later steps still run, in the order path upload, comment upload when a
\* comment is set, creation of the log directory; whenever initialization
\* returns normally the log directory exists; a failure to establish the
\* session propagates and none of the later steps run.
C8_ParamsFailureSuppressed ==
    InitReturned =>
        /\ (model_parameter = <<>> /\ ~SessionFailed(trace)) =>
              ParamsFailure(trace) # {}
        /\ \A i \in ParamsFailure(trace) :
              /\ \E j \in TextAt(trace, "Path to local files") : j = i + 1
              /\ (\A k \in 1..Len(trace) : trace[k].ok \/ k = i) => ret = "None"
        /\ \A j \in TextAt(trace, "Path to local files") :
              /\ \A k \in TextAt(trace, "Comment") : j < k
              /\ \A k \in Attempts(trace, "os.mkdir") : j < k
              /\ trace[j].ok => (comment # "None" <=> TextAt(trace, "Comment") # {})
        /\ \A j \in TextAt(trace, "Comment") :
              \A k \in Attempts(trace, "os.mkdir") : j < k
        /\ ret = "None" => log_dir.exists /\ session = "open"
        /\ SessionFailed(trace) =>
              /\ ret = "raised"
              /\ ~trace[Len(trace)].ok
              /\ \A k \in 1..Len(trace) :
                    trace[k].op \notin {"append_tags", "reduce", "log_text", "os.mkdir"}

\* C8 witness: initialization with an empty hyperparameter mapping and a
\* comment returned normally and created the missing log directory
C8_Witness ==
    /\ InitReturned
    /\ model_parameter = <<>>
    /\ comment # "None"
    /\ ret = "None"
    /\ ParamsFailure(trace) # {}
    /\ Positions(trace, "os.mkdir") # {}
    /\ log_dir.exists

====
